---- MODULE Spec2Model ----
(***************************************************************************)
(* Price-Watcher browser client: the API client that owns the access       *)
(* credential (ApiClient), the generic form-state hook (useForm) with the  *)
(* registration page's validator, modelled as state machines.              *)
(***************************************************************************)
EXTENDS Integers, Sequences, FiniteSets, Bags, TLC

VARIABLES
    accessToken,    \* ApiClient.accessToken: Null, Undefined or Str(s)
    localStorage,   \* localStorage item 'access_token': Null or Str(s)
    inflight,       \* bag of calls suspended in fetch(): the operation, and whether
                    \* a Credential was held when it was called
    last,           \* the step the client took last and what it produced
    lastWrite,      \* history: value of the most recently completed Credential write
    roundTrip,      \* history: Str(t) once setAccessToken(t) was followed by a reload
                    \* and the Credential was not written since, else Null
    stale,          \* history, kept under SpecLogout: the sub-bag of inflight called
                    \* before the last logout() that cleared the Credential
    loggedOut       \* history, kept under SpecLogout: a logout() cleared the
                    \* Credential, and since then no register / login /
                    \* refreshToken called after that logout returned and no
                    \* caller used setAccessToken

VARIABLES
    form,           \* which useForm instance: "register", "login" (the two pages),
                    \* "free" (a caller with a validator of its own), "none" (no validator)
    values,         \* useForm state values: field -> sequence of characters
    errors,         \* useForm state errors: a function on the fields that have an entry
    isSubmitting,   \* useForm state isSubmitting
    pending,        \* number of onSubmit callbacks that have not settled yet
    formLast        \* the step the form took last and what it did

VARIABLES
    themeStorage,   \* localStorage item 'theme': Null or Str(s)
    theme,          \* useTheme state theme (the preference)
    resolvedTheme,  \* useTheme state resolvedTheme
    osDark,         \* matchMedia('(prefers-color-scheme: dark)').matches
    mounted,        \* the hook is rendered
    effectDeps,     \* [theme] of the last run of the effect, Null before the first
    registered,     \* the handler the last run of the effect added, as Str(theme
                    \* it captured), Null when none
    listeners,      \* bag of handlers on the media query, each the theme it captured
    osRead,         \* history: .matches was read since the hook was rendered
    mqCalled,       \* history: window.matchMedia was called since the hook was rendered
    setTrail,       \* history: the preference of the last setTheme call if no
                    \* toggle followed it, and whether a reload followed it
    sinceToggle,    \* history: toggleTheme was called and setTheme(system) not since
    themeLast       \* the step the hook took last

logoutVars == <<stale, loggedOut>>

apiVars == <<accessToken, localStorage, inflight, last, lastWrite, roundTrip,
            stale, loggedOut>>

formVars == <<form, values, errors, isSubmitting, pending, formLast>>

themeVars == <<themeStorage, theme, resolvedTheme, osDark, mounted, effectDeps,
               registered, listeners, osRead, mqCalled, setTrail, sinceToggle,
               themeLast>>

vars == <<accessToken, localStorage, inflight, last, lastWrite, roundTrip,
          stale, loggedOut,
          form, values, errors, isSubmitting, pending, formLast,
          themeStorage, theme, resolvedTheme, osDark, mounted, effectDeps,
          registered, listeners, osRead, mqCalled, setTrail, sinceToggle,
          themeLast>>

\* Largest number of API calls suspended in fetch() at the same time.
MaxInflight == 2

\* Largest number of onSubmit callbacks of one form pending at the same time.
MaxPending == 2

-----------------------------------------------------------------------------
(* JavaScript values *)

Null == [type |-> "null"]
Undefined == [type |-> "undefined"]
Str(s) == [type |-> "string", val |-> s]
Num(n) == [type |-> "number", val |-> n]

\* JS truthiness of null / undefined / string values and objects.
Truthy(v) ==
    CASE v.type = "null" -> FALSE
      [] v.type = "undefined" -> FALSE
      [] v.type = "string" -> v.val # ""
      [] OTHER -> TRUE

\* a || b
JsOr(a, b) == IF Truthy(a) THEN a ELSE b

\* String(v), the conversion localStorage.setItem applies to its value.
ToStr(v) ==
    CASE v.type = "string" -> v.val
      [] v.type = "undefined" -> "undefined"
      [] v.type = "null" -> "null"

-----------------------------------------------------------------------------
(* The server side: what fetch() can settle with *)

Tokens == {"", "tokA", "tokB"}

Statuses == {200, 204, 401, 500}

StatusText(status) ==
    CASE status = 200 -> "OK"
      [] status = 204 -> "No Content"
      [] status = 401 -> "Unauthorized"
      [] status = 500 -> "Internal Server Error"

\* A JSON object with the fields the client reads; an absent field is Undefined.
Obj(access, detail, error, username) ==
    [type |-> "object", access |-> access, detail |-> detail,
     error |-> error, username |-> username]

JsonValues ==
    {Null, Obj(Undefined, Undefined, Undefined, Undefined)}
    \cup {Obj(Str(t), Undefined, Undefined, Str("alice")) : t \in Tokens}
    \cup {Obj(Undefined, Str("Invalid credentials"), Undefined, Undefined),
          Obj(Undefined, Str(""), Str("Token expired"), Undefined),
          Obj(Undefined, Undefined, Undefined, Str("alice"))}

\* Response bodies: no bytes at all, bytes that are not JSON, or a JSON text.
NoJsonBodies == {[kind |-> "empty"], [kind |-> "text"]}

Bodies == NoJsonBodies \cup {[kind |-> "json", val |-> v] : v \in JsonValues}

\* What the server puts in the body of a response that reports a failure.
ErrorBodies ==
    NoJsonBodies
    \cup {[kind |-> "json", val |-> v] : v \in {w \in JsonValues :
              IF w = Null THEN TRUE
              ELSE w.access = Undefined /\ w.username = Undefined}}

TransportFailure == [kind |-> "transport"]

Http(status, body) == [kind |-> "http", status |-> status, body |-> body]

\* fetch() rejects (no response), or resolves with a response: 204 carries no
\* body, 200 carries any body, a failure status carries an error body.
Responses ==
    {TransportFailure, Http(204, [kind |-> "empty"])}
    \cup {Http(200, b) : b \in Bodies}
    \cup {Http(s, b) : s \in Statuses \ {200, 204}, b \in ErrorBodies}

\* response.ok
Ok(resp) == resp.status >= 200 /\ resp.status <= 299

-----------------------------------------------------------------------------
(* ApiError and the outcomes of an async call *)

ApiError(message, status) ==
    [name |-> "ApiError", message |-> message, status |-> status]

SyntaxError == [name |-> "SyntaxError"]
TypeError == [name |-> "TypeError"]

Return(v) == [kind |-> "return", value |-> v]
Throw(e) == [kind |-> "throw", error |-> e]

NetworkError == ApiError("Network error or server unavailable", Undefined)

-----------------------------------------------------------------------------
(* ApiClient *)

Ops == {"register", "login", "logout", "refreshToken", "getUserProfile"}

\* The header object request() builds from the credential held when it is called.
BuildHeaders(token) ==
    [ContentType |-> "application/json",
     Authorization |-> IF Truthy(token) THEN Str("Bearer " \o ToStr(token))
                       ELSE Undefined]

\* isAuthenticated()
IsAuthenticated(token) == token # Null

\* setAccessToken that forgets the localStorage.setItem line.
SetAccessTokenNoPersist(token) == [mem |-> token, sto |-> localStorage]

\* setAccessToken(token): the credential pair (memory, storage) after the call.
SetAccessToken(token) == [mem |-> token, sto |-> Str(ToStr(token))]

\* clearAccessToken()
ClearAccessToken == [mem |-> Null, sto |-> Null]

\* loadTokenFromStorage()
LoadTokenFromStorage(sto) == [mem |-> sto, sto |-> sto]

\* request(): what the promise it returns settles with, given what fetch() gave.
RequestOutcome(resp) ==
    IF resp.kind = "transport"
    THEN Throw(NetworkError)
    ELSE IF ~Ok(resp)
         THEN LET errorData == IF resp.body.kind = "json" THEN resp.body.val
                               ELSE Obj(Undefined, Undefined, Undefined, Undefined)
              IN IF errorData = Null
                 THEN Throw(NetworkError)   \* TypeError on errorData.detail, rewrapped
                 ELSE Throw(ApiError(
                        ToStr(JsOr(errorData.detail,
                              JsOr(errorData.error,
                                   Str("HTTP " \o ToString(resp.status) \o ": "
                                       \o StatusText(resp.status))))),
                        Num(resp.status)))
         ELSE IF resp.body.kind = "json"
              THEN Return(resp.body.val)
              ELSE Throw(SyntaxError)       \* rejection of the returned json() promise

\* register / login / refreshToken that drop the credential when the call fails.
StoreClearsOnFailure(cred, out) ==
    IF out.kind = "throw"
    THEN [cred |-> ClearAccessToken, out |-> out]
    ELSE IF out.value = Null
         THEN [cred |-> cred, out |-> Throw(TypeError)]
         ELSE [cred |-> SetAccessToken(out.value.access), out |-> out]

\* The part of register / login / refreshToken after the awaited request():
\* the credential pair and the outcome of the operation.
StoreContinuation(cred, out) ==
    IF out.kind = "throw"
    THEN [cred |-> cred, out |-> out]
    ELSE IF out.value = Null
         THEN [cred |-> cred, out |-> Throw(TypeError)]
         ELSE [cred |-> SetAccessToken(out.value.access), out |-> out]

\* The part of logout() after the awaited request().
LogoutContinuation(cred, out) ==
    IF out.kind = "throw"
    THEN [cred |-> cred, out |-> out]
    ELSE [cred |-> ClearAccessToken, out |-> Return(Undefined)]

\* getUserProfile that drops the credential when the server answers 401.
ProfileClearsOn401(cred, out) ==
    IF out.kind = "throw" /\ out.error.name = "ApiError" /\ out.error.status = Num(401)
    THEN [cred |-> ClearAccessToken, out |-> out]
    ELSE [cred |-> cred, out |-> out]

\* getUserProfile() returns the request's promise as it is.
ProfileContinuation(cred, out) == [cred |-> cred, out |-> out]

Continuation(op, cred, out) ==
    CASE op \in {"register", "login", "refreshToken"} -> StoreContinuation(cred, out)
      [] op = "logout" -> LogoutContinuation(cred, out)
      [] op = "getUserProfile" -> ProfileContinuation(cred, out)

NoStep == [act |-> "constructed"]

\* new ApiClient(baseUrl) over a storage that holds one of `stored`.
ApiConstructed(stored) ==
    /\ localStorage \in stored
    /\ accessToken = LoadTokenFromStorage(localStorage).mem
    /\ inflight = EmptyBag
    /\ last = NoStep
    /\ lastWrite = accessToken
    /\ roundTrip = Null
    /\ stale = EmptyBag
    /\ loggedOut = FALSE

\* An operation is called: request() builds the headers and suspends in fetch().
Issue(op) ==
    /\ BagCardinality(inflight) < MaxInflight
    /\ LET req == [op |-> op, authed |-> IsAuthenticated(accessToken)]
       IN /\ inflight' = inflight (+) SetToBag({req})
          /\ last' = [act |-> "issue", op |-> op,
                      headers |-> BuildHeaders(accessToken)]
    /\ UNCHANGED <<accessToken, localStorage, lastWrite, roundTrip>>
    /\ UNCHANGED <<formVars, themeVars>>

\* fetch() settles for one suspended call and the rest of the operation runs.
Settle(req, resp) ==
    /\ BagIn(req, inflight)
    /\ LET cred == [mem |-> accessToken, sto |-> localStorage]
           fin == Continuation(req.op, cred, RequestOutcome(resp))
           wrote == req.op # "getUserProfile" /\ fin.out.kind = "return"
       IN /\ accessToken' = fin.cred.mem
          /\ localStorage' = fin.cred.sto
          /\ lastWrite' = IF wrote THEN fin.cred.mem ELSE lastWrite
          /\ roundTrip' = IF wrote THEN Null ELSE roundTrip
          /\ last' = [act |-> "settle", op |-> req.op, authed |-> req.authed,
                      resp |-> resp, out |-> fin.out]
    /\ inflight' = inflight (-) SetToBag({req})
    /\ UNCHANGED <<formVars, themeVars>>

\* A caller uses the public setAccessToken(token).
CallSetAccessToken(t) ==
    /\ accessToken' = SetAccessToken(Str(t)).mem
    /\ localStorage' = SetAccessToken(Str(t)).sto
    /\ lastWrite' = Str(t)
    /\ roundTrip' = Null
    /\ last' = [act |-> "setAccessToken", token |-> t]
    /\ UNCHANGED inflight
    /\ UNCHANGED <<formVars, themeVars>>

\* A caller uses the public clearAccessToken().
CallClearAccessToken ==
    /\ accessToken' = ClearAccessToken.mem
    /\ localStorage' = ClearAccessToken.sto
    /\ lastWrite' = Null
    /\ roundTrip' = Null
    /\ last' = [act |-> "clearAccessToken"]
    /\ UNCHANGED inflight
    /\ UNCHANGED <<formVars, themeVars>>

\* A caller asks isAuthenticated().
CallIsAuthenticated ==
    /\ last' = [act |-> "isAuthenticated", value |-> IsAuthenticated(accessToken)]
    /\ UNCHANGED <<accessToken, localStorage, inflight, lastWrite, roundTrip>>
    /\ UNCHANGED <<formVars, themeVars>>

\* The page is reloaded: the module is evaluated again and a new ApiClient is
\* constructed over the same storage; the old process's calls are gone.
Restart ==
    /\ accessToken' = LoadTokenFromStorage(localStorage).mem
    /\ localStorage' = LoadTokenFromStorage(localStorage).sto
    /\ lastWrite' = accessToken'
    /\ roundTrip' = IF last.act = "setAccessToken" THEN Str(last.token) ELSE roundTrip
    /\ inflight' = EmptyBag
    /\ last' = [act |-> "restart"]
    /\ UNCHANGED <<formVars, themeVars>>

\* Issue(op), with the history of logouts.
IssueAfterLogout(op) ==
    /\ Issue(op)
    /\ UNCHANGED logoutVars

\* Settle(req, resp), with the history of logouts; wasStale tells whether the
\* call that settles was made before the last clearing logout.
SettleAfterLogout(req, resp, wasStale) ==
    /\ IF wasStale THEN BagIn(req, stale)
       ELSE CopiesIn(req, inflight) > CopiesIn(req, stale)
    /\ Settle(req, resp)
    /\ LET out == Continuation(req.op, [mem |-> accessToken, sto |-> localStorage],
                               RequestOutcome(resp)).out
           cleared == req.op = "logout" /\ out.kind = "return"
           stored == req.op \in {"register", "login", "refreshToken"}
                        /\ out.kind = "return"
       IN /\ stale' = IF cleared THEN inflight'
                      ELSE IF wasStale THEN stale (-) SetToBag({req})
                      ELSE stale
          /\ loggedOut' = IF cleared THEN TRUE
                          ELSE IF stored /\ ~wasStale THEN FALSE
                          ELSE loggedOut

\* CallSetAccessToken(t), with the history of logouts.
CallSetAccessTokenAfterLogout(t) ==
    /\ CallSetAccessToken(t)
    /\ loggedOut' = FALSE
    /\ UNCHANGED stale

\* Restart, with the history of logouts.
RestartAfterLogout ==
    /\ Restart
    /\ stale' = EmptyBag
    /\ UNCHANGED loggedOut

-----------------------------------------------------------------------------
(* validators: strings are sequences of one-character strings *)

IsSpace(c) == c \in {" ", "\t", "\n"}

WordChars ==
    {"a", "b", "c", "d", "e", "f", "g", "h", "i", "j", "k", "l", "m", "n", "o",
     "p", "q", "r", "s", "t", "u", "v", "w", "x", "y", "z",
     "A", "B", "C", "D", "E", "F", "G", "H", "I", "J", "K", "L", "M", "N", "O",
     "P", "Q", "R", "S", "T", "U", "V", "W", "X", "Y", "Z",
     "0", "1", "2", "3", "4", "5", "6", "7", "8", "9", "_"}

\* value.trim() is the empty string
TrimsToEmpty(value) == \A k \in 1..Len(value) : IsSpace(value[k])

\* /^[^\s@]+@[^\s@]+\.[^\s@]+$/.test(value)
EmailRegexTest(value) ==
    \E i, j \in 1..Len(value) :
        /\ 1 < i /\ i + 1 < j /\ j < Len(value)
        /\ value[i] = "@" /\ value[j] = "."
        /\ \A k \in (1..Len(value)) \ {i} : ~IsSpace(value[k]) /\ value[k] # "@"

\* /^[a-zA-Z0-9_]+$/.test(value)
UsernameRegexTest(value) ==
    Len(value) > 0 /\ \A k \in 1..Len(value) : value[k] \in WordChars

UsernameMinLength == 3
PasswordMinLength == 8

ValidatorRequired(value) ==
    IF TrimsToEmpty(value) THEN "This field is required" ELSE ""

ValidatorEmail(value) ==
    IF ~EmailRegexTest(value) THEN "Please enter a valid email address" ELSE ""

ValidatorUsername(value) ==
    IF TrimsToEmpty(value) THEN "Username is required"
    ELSE IF Len(value) < UsernameMinLength
         THEN "Username must be at least 3 characters"
         ELSE IF ~UsernameRegexTest(value)
              THEN "Username can only contain letters, numbers, and underscores"
              ELSE ""

ValidatorPassword(value) ==
    IF value = <<>> THEN "Password is required"
    ELSE IF Len(value) < PasswordMinLength
         THEN "Password must be at least 8 characters"
         ELSE ""

-----------------------------------------------------------------------------
(* An errors object: a function whose domain is the set of its keys *)

NoErrors == <<>>

\* errors[field] = message, the other entries kept
WithEntry(errs, field, message) ==
    [f \in DOMAIN errs \cup {field} |-> IF f = field THEN message ELSE errs[f]]

\* if (message) errors[field] = message
WithEntryIfTruthy(errs, field, message) ==
    IF message # "" THEN WithEntry(errs, field, message) ELSE errs

\* delete errors[field]
WithoutEntry(errs, field) == [f \in DOMAIN errs \ {field} |-> errs[f]]

-----------------------------------------------------------------------------
(* RegisterPage and LoginPage *)

RegisterFields ==
    {"username", "email", "password", "confirmPassword", "first_name", "last_name"}

LoginFields == {"username", "password"}

\* RegisterPage.validateForm without the cross-field comparison.
ValidateRegisterNoConfirm(v) ==
    WithEntryIfTruthy(
        WithEntryIfTruthy(
            WithEntryIfTruthy(NoErrors, "username", ValidatorUsername(v.username)),
            "email", ValidatorEmail(v.email)),
        "password", ValidatorPassword(v.password))

\* RegisterPage.validateForm
ValidateRegister(v) ==
    LET e1 == WithEntryIfTruthy(NoErrors, "username", ValidatorUsername(v.username))
        e2 == WithEntryIfTruthy(e1, "email", ValidatorEmail(v.email))
        e3 == WithEntryIfTruthy(e2, "password", ValidatorPassword(v.password))
    IN IF v.password # v.confirmPassword
       THEN WithEntry(e3, "confirmPassword", "Passwords do not match")
       ELSE e3

\* LoginPage.validateForm
ValidateLogin(v) ==
    LET e1 == WithEntryIfTruthy(NoErrors, "username", ValidatorRequired(v.username))
    IN WithEntryIfTruthy(e1, "password", ValidatorRequired(v.password))

-----------------------------------------------------------------------------
(* useForm *)

Forms == {"register", "login", "free", "none"}

\* The two pages disable every input and the submit button while isSubmitting.
PageForms == {"register", "login"}

Fields(f) == IF f = "register" THEN RegisterFields ELSE LoginFields

\* initialValues: every field is the empty string.
InitialValues(f) == [x \in Fields(f) |-> <<>>]

\* What a user may type into a field.
Typed(field) ==
    CASE field = "username" ->
            {<<>>, <<"a", "b">>, <<"a", "b", "c">>, <<"a", "-", "c">>, <<" ", " ", " ">>}
      [] field = "email" ->
            {<<>>, <<"a", "@", "b">>, <<"a", "@", "b", ".", "c">>,
             <<"a", " ", "@", "b", ".", "c">>}
      [] field \in {"password", "confirmPassword"} ->
            {<<>>, <<"s", "h", "o", "r", "t">>,
             <<"a", "b", "c", "d", "e", "f", "g", "h">>,
             <<"a", "b", "c", "d", "e", "f", "g", "H">>}
      [] OTHER -> {<<>>, <<"A", "l">>}

\* Messages a caller's own validator gives a field: "" stands for valid.
FreeMessages == {"", "Invalid"}

\* What validate(values) can return; {NoErrors} also stands for no validator.
ValidationResults(f, v) ==
    CASE f = "register" -> {ValidateRegister(v)}
      [] f = "login" -> {ValidateLogin(v)}
      [] f = "free" -> UNION {[S -> FreeMessages] : S \in SUBSET Fields(f)}
      [] f = "none" -> {NoErrors}

\* Object.keys(validationErrors).length > 0
BlocksSubmit(validationErrors) == Cardinality(DOMAIN validationErrors) > 0

\* useForm(...) of form f, first render.
FormMounted(f) ==
    /\ form = f
    /\ values = InitialValues(f)
    /\ errors = NoErrors
    /\ isSubmitting = FALSE
    /\ pending = 0
    /\ formLast = [act |-> "mounted"]

\* Controls that stay enabled while isSubmitting.
ControlsNeverDisabled == TRUE

\* The controls of a page are disabled while isSubmitting.
ControlsEnabled == form \in PageForms => ~isSubmitting

\* handleChange(field)(e)
HandleChange(field, newValue) ==
    /\ ControlsEnabled
    /\ values' = [values EXCEPT ![field] = newValue]
    /\ errors' = IF field \in DOMAIN errors /\ errors[field] # ""
                 THEN WithoutEntry(errors, field)
                 ELSE errors
    /\ formLast' = [act |-> "handleChange", field |-> field]
    /\ UNCHANGED <<form, isSubmitting, pending>>
    /\ UNCHANGED <<apiVars, themeVars>>

\* handleSubmit(e), up to its await of onSubmit(values)
HandleSubmit(validationErrors) ==
    /\ ControlsEnabled
    /\ IF BlocksSubmit(validationErrors)
       THEN /\ errors' = validationErrors
            /\ formLast' = [act |-> "handleSubmit", validation |-> validationErrors,
                            called |-> FALSE, wasSubmitting |-> isSubmitting]
            /\ UNCHANGED <<isSubmitting, pending>>
       ELSE /\ pending < MaxPending
            /\ errors' = NoErrors
            /\ isSubmitting' = TRUE
            /\ pending' = pending + 1
            /\ formLast' = [act |-> "handleSubmit", validation |-> validationErrors,
                            called |-> TRUE, wasSubmitting |-> isSubmitting]
    /\ UNCHANGED <<form, values>>
    /\ UNCHANGED <<apiVars, themeVars>>

\* A catch that logs and throws the error again.
AfterCallbackRethrows(rejected) == [isSubmitting |-> FALSE, rethrown |-> rejected]

\* setIsSubmitting(false) after the await instead of in a finally.
AfterCallbackNoFinally(rejected) ==
    [isSubmitting |-> IF rejected THEN isSubmitting ELSE FALSE, rethrown |-> FALSE]

\* catch and finally of handleSubmit: the error is logged and not thrown again,
\* setIsSubmitting(false) runs on both paths.
AfterCallback(rejected) == [isSubmitting |-> FALSE, rethrown |-> FALSE]

\* The promise of onSubmit settles: the catch (when it rejected) and the finally
\* of handleSubmit run.
CallbackSettles(rejected) ==
    /\ pending > 0
    /\ pending' = pending - 1
    /\ isSubmitting' = AfterCallback(rejected).isSubmitting
    /\ formLast' = [act |-> "callbackSettled", rejected |-> rejected,
                    rethrown |-> AfterCallback(rejected).rethrown]
    /\ UNCHANGED <<form, values, errors>>
    /\ UNCHANGED <<apiVars, themeVars>>

\* setFieldError(field, error); the pages do not use it
SetFieldError(field, message) ==
    /\ form \notin PageForms
    /\ errors' = WithEntry(errors, field, message)
    /\ formLast' = [act |-> "setFieldError", field |-> field]
    /\ UNCHANGED <<form, values, isSubmitting, pending>>
    /\ UNCHANGED <<apiVars, themeVars>>

\* clearErrors(); the pages do not use it
ClearErrors ==
    /\ form \notin PageForms
    /\ errors' = NoErrors
    /\ formLast' = [act |-> "clearErrors"]
    /\ UNCHANGED <<form, values, isSubmitting, pending>>
    /\ UNCHANGED <<apiVars, themeVars>>

\* reset(); the pages do not use it
Reset ==
    /\ form \notin PageForms
    /\ values' = InitialValues(form)
    /\ errors' = NoErrors
    /\ isSubmitting' = FALSE
    /\ formLast' = [act |-> "reset"]
    /\ UNCHANGED <<form, pending>>
    /\ UNCHANGED <<apiVars, themeVars>>

-----------------------------------------------------------------------------
(* useTheme *)

Themes == {"light", "dark", "system"}

\* What localStorage can hold under 'theme' when the hook is first rendered:
\* nothing, a preference written by setThemeAndPersist, or any other string.
StoredThemes ==
    {Null} \cup {Str(t) : t \in Themes} \cup {Str(""), Str("blue")}

\* An initial preference that does not read the storage.
InitialThemeIgnoresStorage(stored) == "system"

\* useState initialiser of theme: stored || 'system'
InitialTheme(stored) == IF Truthy(stored) THEN stored.val ELSE "system"

\* updateResolvedTheme that does not follow the OS signal.
UpdateResolvedIgnoresOs(t, dark) == IF t = "system" THEN "light" ELSE t

\* updateResolvedTheme(): the value given to setResolvedTheme, for the preference
\* t of the render and the value of matchMedia(...).matches.
UpdateResolvedTheme(t, dark) ==
    IF t = "system" THEN (IF dark THEN "dark" ELSE "light") ELSE t

\* A toggle that sets the resolved theme itself.
ToggleTargetKeeps(resolved) == resolved

\* toggleTheme's argument to setThemeAndPersist
ToggleTarget(resolved) == IF resolved = "light" THEN "dark" ELSE "light"

\* An effect whose cleanup removes nothing.
EffectCleanupNothing(ls, reg) == ls

\* The cleanup the effect returned: removes the handler that effect added.
EffectCleanup(ls, reg) == IF reg = Null THEN ls ELSE ls (-) SetToBag({reg.val})

\* handleChange of a listener that captured preference t: does it recompute?
ListenerActs(t) == t = "system"

\* The effect has to run: first render, or theme differs from the last run's deps.
EffectPending == mounted /\ effectDeps # Str(theme)

\* First render of the hook over a storage holding one of `stored`.
ThemeMounted(stored, os) ==
    /\ themeStorage \in stored
    /\ osDark \in os
    /\ theme = InitialTheme(themeStorage)
    /\ resolvedTheme = "light"
    /\ mounted = TRUE
    /\ effectDeps = Null
    /\ registered = Null
    /\ listeners = EmptyBag
    /\ osRead = FALSE
    /\ mqCalled = FALSE
    /\ setTrail = [set |-> Null, reloaded |-> FALSE]
    /\ sinceToggle = FALSE
    /\ themeLast = [act |-> "mount"]

\* The hook is rendered again after a teardown (a reload of the page).
Mount ==
    /\ ~mounted
    /\ theme' = InitialTheme(themeStorage)
    /\ resolvedTheme' = "light"
    /\ mounted' = TRUE
    /\ effectDeps' = Null
    /\ registered' = Null
    /\ osRead' = FALSE
    /\ mqCalled' = FALSE
    /\ setTrail' = [set |-> setTrail.set, reloaded |-> setTrail.set # Null]
    /\ themeLast' = [act |-> "mount"]
    /\ UNCHANGED <<themeStorage, osDark, listeners, sinceToggle>>
    /\ UNCHANGED <<apiVars, formVars>>

\* The effect of useEffect(..., [theme]) runs: the previous cleanup, then
\* updateResolvedTheme() and the subscription of handleChange.
RunEffect ==
    /\ EffectPending
    /\ resolvedTheme' = UpdateResolvedTheme(theme, osDark)
    /\ listeners' = EffectCleanup(listeners, registered) (+) SetToBag({theme})
    /\ registered' = Str(theme)
    /\ effectDeps' = Str(theme)
    /\ osRead' = (osRead \/ theme = "system")
    /\ mqCalled' = TRUE
    /\ themeLast' = [act |-> "effect"]
    /\ UNCHANGED <<themeStorage, theme, osDark, mounted, setTrail, sinceToggle>>
    /\ UNCHANGED <<apiVars, formVars>>

\* setThemeAndPersist(newTheme), with the history the caller's entry point sets.
SetThemeAndPersist(newTheme) ==
    /\ theme' = newTheme
    /\ themeStorage' = Str(newTheme)
    /\ UNCHANGED <<resolvedTheme, osDark, mounted, effectDeps, registered,
                   listeners, osRead, mqCalled>>
    /\ UNCHANGED <<apiVars, formVars>>

\* A caller uses setTheme(newTheme).
CallSetTheme(newTheme) ==
    /\ mounted
    /\ SetThemeAndPersist(newTheme)
    /\ setTrail' = [set |-> Str(newTheme), reloaded |-> FALSE]
    /\ sinceToggle' = (sinceToggle /\ newTheme # "system")
    /\ themeLast' = [act |-> "setTheme", theme |-> newTheme]

\* A caller uses toggleTheme().
CallToggleTheme ==
    /\ mounted
    /\ SetThemeAndPersist(ToggleTarget(resolvedTheme))
    /\ setTrail' = [set |-> Null, reloaded |-> FALSE]
    /\ sinceToggle' = TRUE
    /\ themeLast' = [act |-> "toggleTheme",
                     afterToggle |-> themeLast.act = "toggleTheme",
                     effectWasPending |-> EffectPending]

\* The OS colour scheme changes: every subscribed handleChange is called.
OsChange ==
    /\ osDark' = ~osDark
    /\ LET acts == \E t \in BagToSet(listeners) : ListenerActs(t)
       IN /\ resolvedTheme' = IF acts THEN UpdateResolvedTheme("system", osDark')
                              ELSE resolvedTheme
          /\ osRead' = (osRead \/ acts)
          /\ mqCalled' = (mqCalled \/ acts)
          /\ themeLast' = [act |-> "osChange", recomputed |-> acts]
    /\ UNCHANGED <<themeStorage, theme, mounted, effectDeps, registered, listeners,
                   setTrail, sinceToggle>>
    /\ UNCHANGED <<apiVars, formVars>>

\* The component that uses the hook is torn down: the effect's cleanup runs.
Unmount ==
    /\ mounted
    /\ mounted' = FALSE
    /\ listeners' = EffectCleanup(listeners, registered)
    /\ registered' = Null
    /\ effectDeps' = Null
    /\ themeLast' = [act |-> "unmount"]
    /\ UNCHANGED <<themeStorage, theme, resolvedTheme, osDark, osRead, mqCalled,
                   setTrail, sinceToggle>>
    /\ UNCHANGED <<apiVars, formVars>>

-----------------------------------------------------------------------------
(* Specifications *)

\* The API client, constructed over any storage content; the form is idle.
Init ==
    /\ ApiConstructed({Null} \cup {Str(t) : t \in Tokens})
    /\ FormMounted("register")
    /\ ThemeMounted({Null}, {FALSE})

Next ==
    \/ \E op \in Ops : Issue(op) /\ UNCHANGED logoutVars
    \/ \E req \in BagToSet(inflight), resp \in Responses :
          Settle(req, resp) /\ UNCHANGED logoutVars
    \/ \E t \in Tokens : CallSetAccessToken(t) /\ UNCHANGED logoutVars
    \/ CallClearAccessToken /\ UNCHANGED logoutVars
    \/ CallIsAuthenticated /\ UNCHANGED logoutVars
    \/ Restart /\ UNCHANGED logoutVars

Spec == Init /\ [][Next]_vars

\* The API client with the history of logouts: calls that overlap a logout.
\* The server answers with no response, an empty 204, or a 200 whose body is
\* an empty object or a user record with a token.
LogoutResponses ==
    {TransportFailure,
     Http(204, [kind |-> "empty"]),
     Http(200, [kind |-> "json", val |-> Obj(Undefined, Undefined, Undefined, Undefined)]),
     Http(200, [kind |-> "json", val |-> Obj(Str("tokA"), Undefined, Undefined, Str("alice"))])}

InitLogout ==
    /\ ApiConstructed({Null, Str("tokB")})
    /\ FormMounted("register")
    /\ ThemeMounted({Null}, {FALSE})

NextLogout ==
    \/ \E op \in Ops : IssueAfterLogout(op)
    \/ \E req \in BagToSet(inflight), resp \in LogoutResponses, wasStale \in BOOLEAN :
          SettleAfterLogout(req, resp, wasStale)
    \/ \E t \in {"tokB"} : CallSetAccessTokenAfterLogout(t)
    \/ RestartAfterLogout

SpecLogout == InitLogout /\ [][NextLogout]_vars

\* One useForm instance; the API client is idle over an empty storage.
InitForm ==
    /\ ApiConstructed({Null})
    /\ \E f \in Forms : FormMounted(f)
    /\ ThemeMounted({Null}, {FALSE})

NextForm ==
    \/ \E field \in Fields(form) : \E newValue \in Typed(field) :
          HandleChange(field, newValue)
    \/ \E validationErrors \in ValidationResults(form, values) :
          HandleSubmit(validationErrors)
    \/ \E rejected \in BOOLEAN : CallbackSettles(rejected)
    \/ \E field \in Fields(form) : \E message \in FreeMessages :
          SetFieldError(field, message)
    \/ ClearErrors
    \/ Reset

SpecForm == InitForm /\ [][NextForm]_vars

\* One useTheme instance over any storage content and OS setting; the API client
\* and the form are idle.
InitTheme ==
    /\ ApiConstructed({Null})
    /\ FormMounted("register")
    /\ ThemeMounted(StoredThemes, BOOLEAN)

NextTheme ==
    \/ RunEffect
    \/ \E newTheme \in Themes : CallSetTheme(newTheme)
    \/ CallToggleTheme
    \/ OsChange
    \/ Unmount
    \/ Mount

SpecTheme == InitTheme /\ [][NextTheme]_vars

-----------------------------------------------------------------------------
(* Properties of the ApiClient, checked under Spec *)

StoreOps == {"register", "login", "refreshToken"}
AuthMutatingOps == StoreOps \cup {"logout"}

Settled(op) == last.act = "settle" /\ last.op = op

\* C1: whatever the server call of logout() settled with, isAuthenticated() is
\* false right after logout() has settled.
C1_LogoutAlwaysUnauthenticates ==
    Settled("logout") => ~IsAuthenticated(accessToken)

\* C2: a 2xx answer with an empty body makes logout() complete without an error
\* and destroys the Credential in memory and in storage.
C2_LogoutEmpty2xxClears ==
    (Settled("logout") /\ last.resp.kind = "http" /\ Ok(last.resp)
        /\ last.resp.body.kind = "empty")
    => (last.out.kind = "return" /\ accessToken = Null /\ localStorage = Null)

\* The access token a settled call's response carried, or Undefined.
ReturnedToken ==
    IF last.resp.kind = "http" /\ last.resp.body.kind = "json"
       /\ last.resp.body.val # Null
    THEN last.resp.body.val.access
    ELSE Undefined

\* C3: right after login, register or refreshToken completed successfully, the
\* Credential in memory and in storage is exactly the access token of that
\* response.
C3_SuccessStoresReturnedToken ==
    (last.act = "settle" /\ last.op \in StoreOps /\ last.out.kind = "return"
        /\ ReturnedToken # Undefined)
    => (accessToken = ReturnedToken /\ localStorage = ReturnedToken)

\* C3 witness: a refreshToken called while a Credential was held succeeded and
\* replaced it by the returned token.
C3_Witness ==
    /\ Settled("refreshToken") /\ last.authed /\ last.out.kind = "return"
    /\ ReturnedToken = Str("tokB")
    /\ accessToken = Str("tokB") /\ localStorage = Str("tokB")

\* C4: after setAccessToken(t) and a reload, isAuthenticated() is true and every
\* request issued carries Authorization: Bearer t.
C4_RoundTrip ==
    roundTrip # Null =>
        /\ IsAuthenticated(accessToken)
        /\ last.act = "issue" =>
              last.headers.Authorization = Str("Bearer " \o roundTrip.val)

\* C5: a request carries an Authorization header iff a Credential is held when
\* it is issued, and the header's token is the most recently completed write.
C5_HeaderIffCredentialHeld ==
    last.act = "issue" =>
        /\ (last.headers.Authorization # Undefined) <=> IsAuthenticated(accessToken)
        /\ last.headers.Authorization # Undefined =>
              last.headers.Authorization = Str("Bearer " \o ToStr(lastWrite))

\* C6: every failure of an operation is an ApiError, with status absent exactly
\* when no response was received.
C6_FailuresAreApiErrors ==
    (last.act = "settle" /\ last.out.kind = "throw") =>
        /\ last.out.error.name = "ApiError"
        /\ (last.out.error.status = Undefined) <=> (last.resp.kind = "transport")

CredentialChanged == accessToken' # accessToken \/ localStorage' # localStorage

\* C7 as stated: the Credential changes only while register, login, logout or
\* refreshToken executes.
C7_OnlyAuthOpsWrite ==
    [][CredentialChanged =>
          (last'.act = "settle" /\ last'.op \in AuthMutatingOps)]_vars

\* C7 amended: the Credential changes only while register, login, logout or
\* refreshToken executes or in a call of the public setAccessToken or
\* clearAccessToken; construction only reloads the in-memory value from the
\* persisted copy; getUserProfile, isAuthenticated and request building change
\* nothing.
C7_OnlyWritersWrite ==
    [][CredentialChanged =>
          \/ last'.act = "settle" /\ last'.op \in AuthMutatingOps
          \/ last'.act \in {"setAccessToken", "clearAccessToken"}
          \/ /\ last'.act = "restart"
             /\ localStorage' = localStorage
             /\ accessToken' = localStorage]_vars

\* C7 witness: getUserProfile was rejected with 401 and the Credential it was
\* called with is still held and persisted.
C7_Witness ==
    /\ Settled("getUserProfile") /\ last.authed
    /\ last.out.kind = "throw" /\ last.out.error.name = "ApiError"
    /\ last.out.error.status = Num(401)
    /\ accessToken = Str("tokA") /\ localStorage = Str("tokA")

\* C8: getUserProfile() called with no Credential held fails with an ApiError of
\* status 401 whatever the server answers.
C8_ProfileWithoutCredentialIs401 ==
    (Settled("getUserProfile") /\ ~last.authed) =>
        /\ last.out.kind = "throw"
        /\ last.out.error.name = "ApiError"
        /\ last.out.error.status = Num(401)

\* C18: the in-memory Credential equals the value persisted under access_token:
\* both absent, or both the same token.
C18_MemoryEqualsStorage == accessToken = localStorage

\* C19: a login, register, refreshToken or getUserProfile that fails leaves the
\* Credential as it was, in memory and in storage.
C19_FailureKeepsCredential ==
    [][(last'.act = "settle" /\ last'.op \in StoreOps \cup {"getUserProfile"}
          /\ last'.out.kind = "throw")
       => (accessToken' = accessToken /\ localStorage' = localStorage)]_vars

\* C19 witness: a refreshToken called with a token was rejected with 401 and the
\* rejected token is still held and persisted.
C19_Witness ==
    /\ Settled("refreshToken") /\ last.authed
    /\ last.out.kind = "throw" /\ last.out.error.name = "ApiError"
    /\ last.out.error.status = Num(401)
    /\ accessToken = Str("tokB") /\ localStorage = Str("tokB")

-----------------------------------------------------------------------------
(* Properties of the ApiClient, checked under SpecLogout *)

\* C21: once a logout() has cleared the Credential, and until a register, login
\* or refreshToken called after that logout returns (or a caller uses
\* setAccessToken), isAuthenticated() is false and no Authorization header is
\* sent; a call already suspended when the logout cleared cannot set it again.
C21_LogoutOutlastsEarlierCalls ==
    loggedOut =>
        /\ ~IsAuthenticated(accessToken)
        /\ BuildHeaders(accessToken) = BuildHeaders(Null)

-----------------------------------------------------------------------------
(* Properties of useForm and the registration page, checked under SpecForm *)

HasMessage(validationErrors) ==
    \E f \in DOMAIN validationErrors : validationErrors[f] # ""

\* C9: handleSubmit invokes the submit callback iff the validator gave no field a
\* non-empty message; when some field has one, errors becomes the validator's
\* result, isSubmitting stays false and the callback is not called.
C9_SubmitIffNoMessage ==
    formLast.act = "handleSubmit" =>
        /\ formLast.called <=> ~HasMessage(formLast.validation)
        /\ HasMessage(formLast.validation) =>
              /\ errors = formLast.validation
              /\ ~formLast.called
              /\ ~formLast.wasSubmitting => ~isSubmitting

\* C10: a submission of the registration form with password different from
\* confirmPassword never invokes the submit callback (nothing is pending, the
\* form is not submitting) and leaves an error on confirmPassword.
C10_MismatchBlocksRegister ==
    (form = "register" /\ formLast.act = "handleSubmit"
        /\ values.password # values.confirmPassword)
    => /\ ~formLast.called
       /\ pending = 0 /\ ~isSubmitting
       /\ "confirmPassword" \in DOMAIN errors
       /\ errors["confirmPassword"] # ""

\* C10 witness: the registration form was submitted with every field valid but
\* the confirmation, and the mismatch is the only error shown.
C10_Witness ==
    /\ form = "register" /\ formLast.act = "handleSubmit"
    /\ values.password # values.confirmPassword
    /\ ~formLast.called
    /\ errors = WithEntry(NoErrors, "confirmPassword", "Passwords do not match")

\* C11: a handleSubmit that passes validation has isSubmitting true when the
\* submit callback is invoked; when the callback settles, fulfilled or rejected,
\* isSubmitting is false again and the rejection is not thrown again.
C11_SubmittingAroundCallback ==
    /\ (formLast.act = "handleSubmit" /\ formLast.called) => isSubmitting
    /\ formLast.act = "callbackSettled" =>
          (~isSubmitting /\ ~formLast.rethrown)

\* C11 witness: a submit callback rejected and the form is no longer submitting.
C11_Witness ==
    /\ formLast.act = "callbackSettled" /\ formLast.rejected
    /\ ~formLast.rethrown /\ ~isSubmitting

\* C12 as stated: at most one submit callback is pending, and a handleSubmit
\* called while isSubmitting is true does not invoke the callback.
C12_OneSubmissionInFlight ==
    /\ pending <= 1
    /\ (formLast.act = "handleSubmit" /\ formLast.wasSubmitting) => ~formLast.called

\* C12 amended: on the two pages, whose inputs and submit button are disabled
\* while isSubmitting, handleSubmit never runs while isSubmitting is true and at
\* most one submit callback is pending; useForm itself has no guard.
C12_OneSubmissionInFlightOnPages ==
    form \in PageForms =>
        /\ pending <= 1
        /\ formLast.act = "handleSubmit" => ~formLast.wasSubmitting

\* C12 witness: the registration form is submitting, one callback is pending and
\* its controls are disabled.
C12_Witness ==
    form = "register" /\ isSubmitting /\ pending = 1 /\ formLast.called

\* C20 as stated: isSubmitting is true iff a submit callback has not settled.
C20_SubmittingIffPending == isSubmitting <=> pending > 0

\* C20 amended: isSubmitting is true only while a submit callback has not
\* settled; on the two pages, which never call reset() and never start a second
\* submission while one is pending, it is true exactly then.
C20_SubmittingOnlyIfPending ==
    /\ isSubmitting => pending > 0
    /\ form \in PageForms => (isSubmitting <=> pending > 0)

\* C20 witness: a caller's form was reset while its submit callback was pending.
C20_Witness ==
    form = "free" /\ formLast.act = "reset" /\ pending = 1 /\ ~isSubmitting

-----------------------------------------------------------------------------
(* Properties of useTheme, checked under SpecTheme *)

\* The rule of the resolved theme, written out: the preference itself when it is
\* light or dark, the OS signal when it is system.
FollowsRule ==
    /\ theme = "light" => resolvedTheme = "light"
    /\ theme = "dark" => resolvedTheme = "dark"
    /\ theme = "system" => resolvedTheme = (IF osDark THEN "dark" ELSE "light")

\* C13: whatever value localStorage held under 'theme' when the hook was first
\* rendered, the resolved theme is always "light" or "dark".
C13_ResolvedIsLightOrDark == resolvedTheme \in {"light", "dark"}

\* C14: once the effect has run for the current preference, the resolved theme
\* follows the rule, and it keeps following it when the OS signal flips while
\* the preference is system.
C14_ResolvedFollowsRule == (mounted /\ ~EffectPending) => FollowsRule

\* C14 witness: the OS turned dark while the preference was system, and the
\* resolved theme turned dark with it.
C14_Witness ==
    /\ themeLast.act = "osChange"
    /\ mounted /\ ~EffectPending
    /\ theme = "system"
    /\ osDark
    /\ resolvedTheme = "dark"

\* setTheme("dark") was the last write of the preference, a reload followed it
\* and the effect of the new render has run.
DarkSetThenReloaded ==
    /\ setTrail = [set |-> Str("dark"), reloaded |-> TRUE]
    /\ mounted /\ ~EffectPending

\* C15 as stated: after setTheme("dark") and a reload the preference is dark, the
\* resolved theme is dark, and window.matchMedia was not called to get there.
C15_DarkSurvivesReloadNoMediaQuery ==
    DarkSetThenReloaded =>
        /\ theme = "dark"
        /\ resolvedTheme = "dark"
        /\ ~mqCalled

\* C15 amended: after setTheme("dark") and a reload the preference is dark; once
\* the effect has run the resolved theme is dark and the value of the OS signal
\* (.matches) was not read, although the media query object was created to
\* subscribe the change handler.
C15_DarkSurvivesReloadOsNotRead ==
    /\ (setTrail = [set |-> Str("dark"), reloaded |-> TRUE] /\ mounted)
          => theme = "dark"
    /\ DarkSetThenReloaded =>
          /\ resolvedTheme = "dark"
          /\ ~osRead
          /\ mqCalled

\* C15 witness: reloaded after setTheme("dark") under a light OS; dark resolved.
C15_Witness ==
    /\ DarkSetThenReloaded
    /\ ~osDark
    /\ theme = "dark"
    /\ resolvedTheme = "dark"

\* C16 as stated: never more than one change handler is subscribed, none after
\* teardown, and once the effect has run for the current preference a handler
\* is subscribed exactly if that preference is system.
C16_SubscribedIffSystem ==
    /\ BagCardinality(listeners) <= 1
    /\ ~mounted => listeners = EmptyBag
    /\ (mounted /\ ~EffectPending) => (listeners # EmptyBag <=> theme = "system")

\* C16 amended: at most one change handler is subscribed; none after teardown;
\* once the effect has run for the current preference, exactly the handler of
\* that preference is subscribed, whatever the preference is; and an OS change
\* recomputes the resolved theme only if the subscribed handler captured system.
C16_OneHandlerPerEffectRun ==
    /\ BagCardinality(listeners) <= 1
    /\ ~mounted => listeners = EmptyBag
    /\ (mounted /\ ~EffectPending) => listeners = SetToBag({theme})
    /\ themeLast.act = "osChange" =>
          (themeLast.recomputed <=> listeners = SetToBag({"system"}))

\* C16 witness: the preference is dark and a change handler is subscribed.
C16_Witness ==
    /\ mounted /\ ~EffectPending
    /\ theme = "dark"
    /\ listeners = SetToBag({"dark"})
    /\ themeLast.act = "osChange"
    /\ ~themeLast.recomputed

\* C17: toggleTheme sets the preference, in memory and in storage, to the
\* opposite of the resolved theme of the current render, and from then on the
\* preference is light or dark until setTheme("system").
C17_ToggleSetsOpposite ==
    /\ themeLast.act = "toggleTheme" =>
          /\ resolvedTheme = "light" => theme = "dark"
          /\ resolvedTheme = "dark" => theme = "light"
          /\ themeStorage = Str(theme)
    /\ sinceToggle =>
          /\ theme \in {"light", "dark"}
          /\ themeStorage = Str(theme)

\* C17 witness: a second toggle before the effect recomputed the resolved theme.
C17_Witness ==
    /\ themeLast.act = "toggleTheme"
    /\ themeLast.afterToggle
    /\ themeLast.effectWasPending
    /\ resolvedTheme = "light"
    /\ theme = "dark"

====
